---- MODULE Spec2Model ----
(***************************************************************************)
(* The associative memory store of src/memory_system.py: MemoryTrace       *)
(* validation, MemoryNetwork.store_memory (indexing, association scoring,  *)
(* capacity management), retrieve_memories, get_associated_memories and    *)
(* get_memory_statistics, and calls of them that run at the same time.     *)
(*                                                                         *)
(* Python floats are modelled as exact rationals [num, den] in lowest      *)
(* terms, datetimes as whole seconds since midnight of day 0, strings as   *)
(* sequences of one-character strings, a dict as its insertion-ordered     *)
(* sequence of keys plus a function on them.  Every call passes a freshly  *)
(* constructed MemoryTrace (no object is stored twice).                    *)
(***************************************************************************)
EXTENDS Integers, Sequences, FiniteSets, TLC

VARIABLES
    capacity,               \* MemoryNetwork.capacity
    memories,               \* MemoryNetwork.memories: identifier -> MemoryTrace
    order,                  \* insertion order of the keys of memories
    context_index,          \* "key:value" -> set of identifiers
    temporal_index,         \* hour bucket -> set of identifiers
    emotional_index,        \* rounded valence -> set of identifiers
    tag_index,              \* tag -> set of identifiers
    association_strength,   \* (identifier, identifier) -> strength
    clock,                  \* what datetime.now() returns
    pool,                   \* which family of constructor arguments the producer uses
    retrievals,             \* number of retrieve_memories calls made so far
    last                    \* the call made last: its arguments and its outcome

vars == <<capacity, memories, order, context_index, temporal_index,
          emotional_index, tag_index, association_strength, clock, pool,
          retrievals, last>>

store_vars == <<memories, order, context_index, temporal_index,
                emotional_index, tag_index, association_strength>>

-----------------------------------------------------------------------------
(* Bounds of the model *)

MaxCapacity == 2        \* capacities 0..MaxCapacity are explored
MaxMemories == 2        \* store_memory is called while at most this many are stored
MaxRetrievals == 1      \* retrieve_memories is called at most this often
MaxTicks == 1           \* the clock advances at most this many seconds
MaxAssociations == 1    \* store_memory is called while no associations list is longer

-----------------------------------------------------------------------------
(* Exact rational arithmetic standing for Python float arithmetic *)

Abs(x) == IF x < 0 THEN -x ELSE x

Max(a, b) == IF a >= b THEN a ELSE b

Min(a, b) == IF a <= b THEN a ELSE b

RECURSIVE GCD(_, _)
GCD(a, b) == IF b = 0 THEN a ELSE GCD(b, a % b)

Rat(n, d) ==
    LET g == GCD(Abs(n), Abs(d))
        s == IF d < 0 THEN -1 ELSE 1
    IN  [num |-> s * (n \div g), den |-> s * (d \div g)]

RatAdd(a, b) == Rat(a.num * b.den + b.num * a.den, a.den * b.den)

RatSub(a, b) == Rat(a.num * b.den - b.num * a.den, a.den * b.den)

RatMul(a, b) == Rat(a.num * b.num, a.den * b.den)

RatAbs(a) == [num |-> Abs(a.num), den |-> a.den]

RatInt(n) == [num |-> n, den |-> 1]

\* a < b for fractions with positive denominators, by comparing integer parts
\* and then the reciprocals of the fractional parts (no cross product)
RECURSIVE FracLess(_, _, _, _)
FracLess(p1, q1, p2, q2) ==
    LET f1 == p1 \div q1
        f2 == p2 \div q2
        r1 == p1 % q1
        r2 == p2 % q2
    IN  IF f1 # f2 THEN f1 < f2
        ELSE IF r2 = 0 THEN FALSE
        ELSE IF r1 = 0 THEN TRUE
        ELSE FracLess(q2, r2, q1, r1)

RatLess(a, b) == FracLess(a.num, a.den, b.num, b.den)

RatLeq(a, b) == ~RatLess(b, a)

\* Python's round(): to the nearest integer, halves to the even neighbour
Round(a) ==
    LET f == a.num \div a.den
        twice == 2 * (a.num % a.den)
    IN  IF twice < a.den THEN f
        ELSE IF twice > a.den THEN f + 1
        ELSE IF f % 2 = 0 THEN f ELSE f + 1

-----------------------------------------------------------------------------
(* Python values: every constructor argument carries its runtime type *)

Py(t, v) == [type |-> t, val |-> v]

PyNone == Py("NoneType", 0)

\* the one-character strings that can stand in a content string
Lower(c) == CASE c = "A" -> "a" [] c = "B" -> "b" [] OTHER -> c

CharCode(c) == CASE c = "a" -> 1 [] c = "b" -> 2 [] c = "A" -> 3 [] OTHER -> 4

\* hash(str): a number determined by the characters; distinct on the strings used
RECURSIVE Hash(_)
Hash(s) == IF s = <<>> THEN 0 ELSE CharCode(Head(s)) + 5 * Hash(Tail(s))

-----------------------------------------------------------------------------
(* MemoryTrace *)

\* a faulty __post_init__ that does not check the ranges of importance and
\* emotional_valence
PostInitSkipRanges(a) ==
    IF a.content.val = <<>> THEN "ValueError"
    ELSE IF a.timestamp.type # "datetime" THEN "TypeError"
    ELSE IF a.context.type # "dict" THEN "TypeError"
    ELSE IF a.tags.type # "set" THEN "TypeError"
    ELSE IF a.associations.type \notin {"NoneType", "list"} THEN "TypeError"
    ELSE IF a.retrieval_count.val < 0 THEN "ValueError"
    ELSE IF a.last_accessed.type \notin {"NoneType", "datetime"} THEN "TypeError"
    ELSE "none"

\* a faulty __post_init__ that does not check the types of timestamp and
\* last_accessed
PostInitSkipTimestamp(a) ==
    IF a.content.val = <<>> THEN "ValueError"
    ELSE IF a.importance.type # "float"
            \/ ~(RatLeq(RatInt(0), a.importance.val) /\ RatLeq(a.importance.val, RatInt(1)))
         THEN "ValueError"
    ELSE IF a.emotional_valence.type # "float"
            \/ ~(RatLeq(RatInt(-1), a.emotional_valence.val)
                 /\ RatLeq(a.emotional_valence.val, RatInt(1)))
         THEN "ValueError"
    ELSE IF a.context.type # "dict" THEN "TypeError"
    ELSE IF a.tags.type # "set" THEN "TypeError"
    ELSE IF a.associations.type \notin {"NoneType", "list"} THEN "TypeError"
    ELSE IF a.retrieval_count.val < 0 THEN "ValueError"
    ELSE "none"

\* the exception MemoryTrace.__post_init__ raises on constructor arguments a,
\* or "none"; the checks run in the order of the source ("float" stands for
\* the numbers isinstance(x, (int, float)) accepts)
PostInit(a) ==
    IF a.content.val = <<>> THEN "ValueError"
    ELSE IF a.timestamp.type # "datetime" THEN "TypeError"
    ELSE IF a.importance.type # "float"
            \/ ~(RatLeq(RatInt(0), a.importance.val) /\ RatLeq(a.importance.val, RatInt(1)))
         THEN "ValueError"
    ELSE IF a.emotional_valence.type # "float"
            \/ ~(RatLeq(RatInt(-1), a.emotional_valence.val)
                 /\ RatLeq(a.emotional_valence.val, RatInt(1)))
         THEN "ValueError"
    ELSE IF a.context.type # "dict" THEN "TypeError"
    ELSE IF a.tags.type # "set" THEN "TypeError"
    ELSE IF a.associations.type \notin {"NoneType", "list"} THEN "TypeError"
    ELSE IF a.retrieval_count.val < 0 THEN "ValueError"
    ELSE IF a.last_accessed.type \notin {"NoneType", "datetime"} THEN "TypeError"
    ELSE "none"

\* the MemoryTrace object that a successful construction from a yields
Trace(a) ==
    [content |-> a.content.val,
     timestamp |-> a.timestamp.val,
     importance |-> a.importance.val,
     emotional_valence |-> a.emotional_valence.val,
     context |-> a.context.val,
     tags |-> a.tags.val,
     retrieval_count |-> a.retrieval_count.val,
     last_accessed |-> a.last_accessed,
     associations |-> IF a.associations.type = "NoneType" THEN <<>>
                      ELSE a.associations.val]

-----------------------------------------------------------------------------
(* The four dimension indices.  A bucket that exists but is empty is         *)
(* identified with an absent bucket: an index is a function on the keys of   *)
(* its non-empty buckets.                                                    *)

Lookup(index, k) == IF k \in DOMAIN index THEN index[k] ELSE {}

WithBucket(index, k, ids) ==
    LET keys == IF ids = {} THEN DOMAIN index \ {k} ELSE DOMAIN index \cup {k}
    IN  [x \in keys |-> IF x = k THEN ids ELSE index[x]]

IndexAdd(index, k, id) == WithBucket(index, k, Lookup(index, k) \cup {id})

IndexDiscard(index, k, id) == WithBucket(index, k, Lookup(index, k) \ {id})

RECURSIVE IndexAddAll(_, _, _)
IndexAddAll(index, keys, id) ==
    IF keys = {} THEN index
    ELSE LET k == CHOOSE x \in keys : TRUE
         IN  IndexAddAll(IndexAdd(index, k, id), keys \ {k}, id)

RECURSIVE IndexDiscardAll(_, _, _)
IndexDiscardAll(index, keys, id) ==
    IF keys = {} THEN index
    ELSE LET k == CHOOSE x \in keys : TRUE
         IN  IndexDiscardAll(IndexDiscard(index, k, id), keys \ {k}, id)

\* f"{context_key}:{context_value}"
ContextKey(pair) == pair[1] \o <<":">> \o pair[2]

ContextKeys(m) == {ContextKey(p) : p \in m.context}

\* timestamp.strftime("%Y%m%d%H"): the timestamp truncated to its hour
HourScale == 3600

HourKey(t) == t \div HourScale

\* round(emotional_valence * 10) / 10
EmotionKey(v) == Rat(Round(RatMul(v, RatInt(10))), 10)

MemoryId(n, content) == <<n, Hash(content)>>

-----------------------------------------------------------------------------
(* MemoryNetwork: its methods as functions of the network n, a record of     *)
(* the store's fields plus removed, the records _remove_memory has deleted   *)
(* in this call, and raised/at, the exception that ended the call and the    *)
(* method that raised it.                                                    *)

Net ==
    [memories |-> memories, order |-> order,
     context_index |-> context_index, temporal_index |-> temporal_index,
     emotional_index |-> emotional_index, tag_index |-> tag_index,
     association_strength |-> association_strength,
     removed |-> <<>>, raised |-> "none", at |-> "none"]

Raise(n, exc, where) == [n EXCEPT !.raised = exc, !.at = where]

\* self.memories[memory_id] = memory: an existing key keeps its position
PutMemory(n, id, m) ==
    [n EXCEPT !.memories = [x \in DOMAIN n.memories \cup {id} |->
                               IF x = id THEN m ELSE n.memories[x]],
              !.order = IF id \in DOMAIN n.memories THEN n.order
                        ELSE Append(n.order, id)]

UpdateIndices(n, id, m) ==
    [n EXCEPT !.context_index = IndexAddAll(n.context_index, ContextKeys(m), id),
              !.temporal_index = IndexAdd(n.temporal_index, HourKey(m.timestamp), id),
              !.emotional_index =
                  IndexAdd(n.emotional_index, EmotionKey(m.emotional_valence), id),
              !.tag_index = IndexAddAll(n.tag_index, m.tags, id)]

\* the division by max(len(context), len(context)) fails on two empty contexts
StrengthRaises(m1, m2) == Max(Cardinality(m1.context), Cardinality(m2.context)) = 0

ContextSim(m1, m2) ==
    Rat(Cardinality(m1.context \cap m2.context),
        Max(Cardinality(m1.context), Cardinality(m2.context)))

TagSim(m1, m2) ==
    IF m1.tags # {} /\ m2.tags # {}
    THEN Rat(Cardinality(m1.tags \cap m2.tags),
             Max(Cardinality(m1.tags), Cardinality(m2.tags)))
    ELSE RatInt(0)

\* 1 / (1 + time_diff / 3600)
TemporalSim(m1, m2) == Rat(HourScale, HourScale + Abs(m1.timestamp - m2.timestamp))

\* 1 - abs(valence1 - valence2)
EmotionalSim(m1, m2) ==
    RatSub(RatInt(1), RatAbs(RatSub(m1.emotional_valence, m2.emotional_valence)))

CalculateAssociationStrength(m1, m2) ==
    RatAdd(RatAdd(RatAdd(RatMul(Rat(3, 10), ContextSim(m1, m2)),
                         RatMul(Rat(3, 10), TagSim(m1, m2))),
                  RatMul(Rat(2, 10), TemporalSim(m1, m2))),
           RatMul(Rat(2, 10), EmotionalSim(m1, m2)))

AssociationThreshold == Rat(3, 10)

\* a faulty threshold test: 0.3 taken inclusive
AssociatedInclusive(strength) == RatLeq(AssociationThreshold, strength)

\* strength > 0.3
Associated(strength) == RatLess(AssociationThreshold, strength)

\* one round of the loop of _create_associations, for the key at position i
Associate(n, id, other) ==
    LET strength == CalculateAssociationStrength(n.memories[id], n.memories[other])
    IN  IF ~Associated(strength) THEN n
        ELSE [n EXCEPT
                 !.memories[id].associations = Append(@, other),
                 !.memories[other].associations = Append(@, id),
                 !.association_strength =
                     [pr \in DOMAIN n.association_strength \cup {<<id, other>>, <<other, id>>}
                        |-> IF pr \in {<<id, other>>, <<other, id>>} THEN strength
                            ELSE n.association_strength[pr]]]

RECURSIVE CreateAssociationsFrom(_, _, _)
CreateAssociationsFrom(n, id, i) ==
    IF i > Len(n.order) THEN n
    ELSE IF n.order[i] = id THEN CreateAssociationsFrom(n, id, i + 1)
    ELSE IF StrengthRaises(n.memories[id], n.memories[n.order[i]])
         THEN Raise(n, "ZeroDivisionError", "_calculate_association_strength")
    ELSE CreateAssociationsFrom(Associate(n, id, n.order[i]), id, i + 1)

CreateAssociations(n, id) == CreateAssociationsFrom(n, id, 1)

-----------------------------------------------------------------------------
(* Capacity management *)

Range(seq) == {seq[i] : i \in DOMAIN seq}

\* list.remove(x): the first occurrence of x goes
RECURSIVE RemoveFirst(_, _)
RemoveFirst(seq, x) ==
    IF seq = <<>> THEN <<>>
    ELSE IF Head(seq) = x THEN Tail(seq)
    ELSE <<Head(seq)>> \o RemoveFirst(Tail(seq), x)

Without(f, k) == [x \in DOMAIN f \ {k} |-> f[x]]

RECURSIVE Filter(_, _)
Filter(seq, x) ==
    IF seq = <<>> THEN <<>>
    ELSE IF Head(seq) = x THEN Filter(Tail(seq), x)
    ELSE <<Head(seq)>> \o Filter(Tail(seq), x)

\* the loop over memory.associations in _remove_memory, from position j on
RECURSIVE RemoveAssociationsFrom(_, _, _, _)
RemoveAssociationsFrom(n, id, assocs, j) ==
    IF j > Len(assocs) THEN n
    ELSE LET a == assocs[j]
         IN  IF a \notin DOMAIN n.memories
             THEN RemoveAssociationsFrom(n, id, assocs, j + 1)
             ELSE IF id \notin Range(n.memories[a].associations)
             THEN Raise(n, "ValueError", "_remove_memory")
             ELSE LET n1 == [n EXCEPT !.memories[a].associations = RemoveFirst(@, id)]
                      n2 == [n1 EXCEPT !.association_strength = Without(@, <<id, a>>)]
                      n3 == [n2 EXCEPT !.association_strength = Without(@, <<a, id>>)]
                  IN  IF <<id, a>> \notin DOMAIN n1.association_strength
                      THEN Raise(n1, "KeyError", "_remove_memory")
                      ELSE IF <<a, id>> \notin DOMAIN n2.association_strength
                      THEN Raise(n2, "KeyError", "_remove_memory")
                      ELSE RemoveAssociationsFrom(n3, id, assocs, j + 1)

\* _remove_memory; the record removed is noted in removed
RemoveMemory(n, id) ==
    LET m == n.memories[id]
        n1 == [n EXCEPT
                 !.context_index = IndexDiscardAll(@, ContextKeys(m), id),
                 !.temporal_index = IndexDiscard(@, HourKey(m.timestamp), id),
                 !.emotional_index = IndexDiscard(@, EmotionKey(m.emotional_valence), id),
                 !.tag_index = IndexDiscardAll(@, m.tags, id)]
        n2 == RemoveAssociationsFrom(n1, id, m.associations, 1)
    IN  IF n2.raised # "none" THEN n2
        ELSE [n2 EXCEPT !.memories = Without(@, id), !.order = Filter(@, id),
                        !.removed = Append(@, [id |-> id, memory |-> m])]

\* 1 / (1 + (datetime.now() - memory.timestamp).total_seconds()) divides by zero
\* for a timestamp one second ahead of the clock
ScoreRaises(m, now) == 1 + (now - m.timestamp) = 0

\* importance * 0.4 + time_factor * 0.3 + (retrieval_count / 10) * 0.3
Score(m, now) ==
    RatAdd(RatAdd(RatMul(m.importance, Rat(4, 10)),
                  RatMul(Rat(1, 1 + (now - m.timestamp)), Rat(3, 10))),
           RatMul(Rat(m.retrieval_count, 10), Rat(3, 10)))

\* sorted(memory_scores.items(), key=score)[:k]: the sequences of keys that
\* the sort can put first.  Every score is computed from its own reading of
\* the clock; readings closer together than a second are the same value here,
\* so records whose scores tie come out in dict order when the clock stood
\* still between their readings and in another order when it moved.
LowestScoring(n, k, now) ==
    LET ids == DOMAIN n.memories
        score == [id \in ids |-> Score(n.memories[id], now)]
    IN  {p \in [1..k -> ids] :
            /\ \A i \in 1..k : \A j \in 1..k : i # j => p[i] # p[j]
            /\ \A i \in 1..(k - 1) : RatLeq(score[p[i]], score[p[i + 1]])
            /\ \A id \in ids \ Range(p) : RatLeq(score[p[k]], score[id])}

RECURSIVE RemoveAll(_, _)
RemoveAll(n, ids) ==
    IF ids = <<>> \/ n.raised # "none" THEN n
    ELSE RemoveAll(RemoveMemory(n, Head(ids)), Tail(ids))

\* a faulty _manage_capacity: the store is trimmed only once it is two over
ManageCapacityLate(n, cap, now) ==
    IF Len(n.order) <= cap + 1 THEN {n}
    ELSE IF \E id \in DOMAIN n.memories : ScoreRaises(n.memories[id], now)
         THEN {Raise(n, "ZeroDivisionError", "_manage_capacity")}
    ELSE {RemoveAll(n, p) : p \in LowestScoring(n, Len(n.order) - cap, now)}

\* _manage_capacity: the networks it can leave
ManageCapacity(n, cap, now) ==
    IF Len(n.order) <= cap THEN {n}
    ELSE IF \E id \in DOMAIN n.memories : ScoreRaises(n.memories[id], now)
         THEN {Raise(n, "ZeroDivisionError", "_manage_capacity")}
    ELSE {RemoveAll(n, p) : p \in LowestScoring(n, Len(n.order) - cap, now)}

-----------------------------------------------------------------------------
(* store_memory *)

\* the network as _manage_capacity finds it: the record stored, indexed, linked
Inserted(n, m) ==
    LET id == MemoryId(Len(n.order), m.content)
    IN  CreateAssociations(UpdateIndices(PutMemory(n, id, m), id, m), id)

\* store_memory(obj) on network n: the networks it can leave
StoreMemoryCall(n, obj, cap, now) ==
    IF obj.type # "MemoryTrace" THEN {Raise(n, "TypeError", "store_memory")}
    ELSE LET n1 == Inserted(n, obj.val)
         IN  IF n1.raised # "none" THEN {n1} ELSE ManageCapacity(n1, cap, now)

-----------------------------------------------------------------------------
(* retrieve_memories *)

\* needle in hay, for strings
IsSubstring(needle, hay) ==
    \E i \in 0..(Len(hay) - Len(needle)) :
        SubSeq(hay, i + 1, i + Len(needle)) = needle

LowerStr(str) == [i \in DOMAIN str |-> Lower(str[i])]

ContentMatches(n, text) ==
    {id \in DOMAIN n.memories :
        IsSubstring(LowerStr(text), LowerStr(n.memories[id].content))}

ContextMatches(n, pairs) ==
    UNION {Lookup(n.context_index, ContextKey(p)) : p \in pairs}

HourOfDay(t) == (t \div HourScale) % 24

\* the while loop over the hours of a time range: the identifiers gathered,
\* and the ValueError of datetime.replace(hour=24)
RECURSIVE ScanHours(_, _, _, _)
ScanHours(n, t, end, acc) ==
    IF t > end THEN [raised |-> "none", ids |-> acc]
    ELSE LET found == acc \cup Lookup(n.temporal_index, HourKey(t))
         IN  IF HourOfDay(t) = 23 THEN [raised |-> "ValueError", ids |-> found]
             ELSE ScanHours(n, t + HourScale, end, found)

TagMatches(n, tags) == UNION {Lookup(n.tag_index, t) : t \in tags}

Ceil(a) == -((-a.num) \div a.den)

\* len(np.arange(lo, hi + 0.1, 0.1)) = ceil((hi + 0.1 - lo) / 0.1)
ArangeLen(lo, hi) ==
    Max(0, Ceil(RatMul(RatSub(RatAdd(hi, Rat(1, 10)), lo), RatInt(10))))

EmotionalMatches(n, lo, hi) ==
    UNION {Lookup(n.emotional_index, EmotionKey(RatAdd(lo, Rat(i, 10)))) :
              i \in 0..(ArangeLen(lo, hi) - 1)}

ImportanceMatches(n, floor) ==
    {id \in DOMAIN n.memories : RatLeq(floor, n.memories[id].importance)}

QueryRaises(n, q) ==
    IF q.time_range.type = "tuple"
    THEN ScanHours(n, q.time_range.val[1], q.time_range.val[2], {}).raised
    ELSE "none"

\* candidate_memories after all the filters of query q
Candidates(n, q) ==
    LET c0 == DOMAIN n.memories
        c1 == IF q.content.type = "str" /\ q.content.val # <<>>
              THEN c0 \cap ContentMatches(n, q.content.val) ELSE c0
        c2 == IF q.context.type = "dict" /\ q.context.val # {}
              THEN c1 \cap ContextMatches(n, q.context.val) ELSE c1
        c3 == IF q.time_range.type = "tuple"
              THEN c2 \cap ScanHours(n, q.time_range.val[1], q.time_range.val[2], {}).ids
              ELSE c2
        c4 == IF q.tags.type = "set" /\ q.tags.val # {}
              THEN c3 \cap TagMatches(n, q.tags.val) ELSE c3
        c5 == IF q.emotional_range.type = "tuple"
              THEN c4 \cap EmotionalMatches(n, q.emotional_range.val[1],
                                            q.emotional_range.val[2])
              ELSE c4
    IN  IF q.importance_threshold.type = "float"
        THEN c5 \cap ImportanceMatches(n, q.importance_threshold.val) ELSE c5

\* a faulty sort key: retrieval counts ascending
InOrderAscending(ma, mb) ==
    \/ RatLess(mb.importance, ma.importance)
    \/ /\ ma.importance = mb.importance
       /\ ma.retrieval_count <= mb.retrieval_count

\* results.sort(key=(-importance, -retrieval_count)): a before b is allowed
InOrder(ma, mb) ==
    \/ RatLess(mb.importance, ma.importance)
    \/ /\ ma.importance = mb.importance
       /\ ma.retrieval_count >= mb.retrieval_count

\* the orders the sorted result list can have (a set is iterated in any order)
ResultOrders(n, ids) ==
    {r \in [1..Cardinality(ids) -> ids] :
        /\ Range(r) = ids
        /\ \A i \in 1..(Cardinality(ids) - 1) :
               InOrder(n.memories[r[i]], n.memories[r[i + 1]])}

\* a faulty update: last_accessed is set, the count is left alone
TouchNoCount(n, ids, now) ==
    [n EXCEPT !.memories =
        [id \in DOMAIN n.memories |->
            IF id \in ids
            THEN [n.memories[id] EXCEPT !.last_accessed = Py("datetime", now)]
            ELSE n.memories[id]]]

\* a faulty update: a retrieved record also loses half of its importance
TouchDecaying(n, ids, now) ==
    [n EXCEPT !.memories =
        [id \in DOMAIN n.memories |->
            IF id \in ids
            THEN [n.memories[id] EXCEPT !.retrieval_count = @ + 1,
                                        !.last_accessed = Py("datetime", now),
                                        !.importance = RatMul(@, Rat(1, 2))]
            ELSE n.memories[id]]]

\* a faulty update: every stored record is counted, returned or not
TouchEvery(n, ids, now) ==
    [n EXCEPT !.memories =
        [id \in DOMAIN n.memories |->
            [n.memories[id] EXCEPT !.retrieval_count = @ + 1,
                                   !.last_accessed = Py("datetime", now)]]]

\* memory.retrieval_count += 1; memory.last_accessed = datetime.now()
Touch(n, ids, now) ==
    [n EXCEPT !.memories =
        [id \in DOMAIN n.memories |->
            IF id \in ids
            THEN [n.memories[id] EXCEPT !.retrieval_count = @ + 1,
                                        !.last_accessed = Py("datetime", now)]
            ELSE n.memories[id]]]

EmptyQuery ==
    [content |-> PyNone, context |-> PyNone, time_range |-> PyNone,
     tags |-> PyNone, emotional_range |-> PyNone, importance_threshold |-> PyNone]

\* the query built from a record's own context pairs, tags, timestamp and valence
QueryFor(m) ==
    [EmptyQuery EXCEPT
        !.context = Py("dict", m.context),
        !.time_range = Py("tuple", <<m.timestamp, m.timestamp>>),
        !.tags = Py("set", m.tags),
        !.emotional_range = Py("tuple", <<m.emotional_valence, m.emotional_valence>>)]

-----------------------------------------------------------------------------
(* get_associated_memories and get_memory_statistics *)

\* self.association_strength is a defaultdict(float): reading a missing key
\* stores 0.0 under it
WithDefaults(strengths, keys) ==
    [k \in DOMAIN strengths \cup keys |->
        IF k \in DOMAIN strengths THEN strengths[k] ELSE RatInt(0)]

\* [(other_id, strength) for other_id in associations if strength >= threshold]
RECURSIVE StrongEdges(_, _, _, _)
StrongEdges(strengths, id, others, threshold) ==
    IF others = <<>> THEN <<>>
    ELSE LET strength == strengths[<<id, Head(others)>>]
             rest == StrongEdges(strengths, id, Tail(others), threshold)
         IN  IF RatLeq(threshold, strength)
             THEN <<[id |-> Head(others), strength |-> strength]>> \o rest
             ELSE rest

\* list.sort(key=lambda x: -x[1]) is stable: an edge goes behind every edge
\* that is at least as strong
RECURSIVE InsertByStrength(_, _)
InsertByStrength(sorted, e) ==
    IF sorted = <<>> THEN <<e>>
    ELSE IF RatLess(Head(sorted).strength, e.strength) THEN <<e>> \o sorted
    ELSE <<Head(sorted)>> \o InsertByStrength(Tail(sorted), e)

RECURSIVE SortByStrength(_, _)
SortByStrength(sorted, edges) ==
    IF edges = <<>> THEN sorted
    ELSE SortByStrength(InsertByStrength(sorted, Head(edges)), Tail(edges))

\* seq[:k]; a negative k counts from the end
Slice(seq, k) ==
    SubSeq(seq, 1, IF k < 0 THEN Max(Len(seq) + k, 0) ELSE Min(k, Len(seq)))

\* a faulty lookup: the membership test is missing, self.memories[memory_id]
\* raises for an unknown identifier
GetAssociatedUnchecked(n, id, threshold, max_results) ==
    IF id \notin DOMAIN n.memories
    THEN [net |-> Raise(n, "KeyError", "get_associated_memories"), result |-> <<>>]
    ELSE LET others == n.memories[id].associations
             strengths == WithDefaults(n.association_strength,
                                       {<<id, o>> : o \in Range(others)})
         IN  [net |-> [n EXCEPT !.association_strength = strengths],
              result |-> Slice(SortByStrength(<<>>, StrongEdges(strengths, id, others,
                                                                threshold)),
                               max_results)]

\* MemoryNetwork.get_associated_memories(memory_id, threshold, max_results)
GetAssociatedMemories(n, id, threshold, max_results) ==
    IF id \notin DOMAIN n.memories THEN [net |-> n, result |-> <<>>]
    ELSE LET others == n.memories[id].associations
             strengths == WithDefaults(n.association_strength,
                                       {<<id, o>> : o \in Range(others)})
         IN  [net |-> [n EXCEPT !.association_strength = strengths],
              result |-> Slice(SortByStrength(<<>>, StrongEdges(strengths, id, others,
                                                                threshold)),
                               max_results)]

RECURSIVE SumOver(_, _)
SumOver(f, ids) ==
    IF ids = {} THEN 0
    ELSE LET id == CHOOSE x \in ids : TRUE
         IN  f[id] + SumOver(f, ids \ {id})

RECURSIVE RatSumOver(_, _)
RatSumOver(f, ids) ==
    IF ids = {} THEN RatInt(0)
    ELSE LET id == CHOOSE x \in ids : TRUE
         IN  RatAdd(f[id], RatSumOver(f, ids \ {id}))

\* np.mean(values): nan (with a warning, no exception) for no values
Mean(f, ids) ==
    IF ids = {} THEN Py("float", "nan")
    ELSE Py("float", RatMul(RatSumOver(f, ids), Rat(1, Cardinality(ids))))

\* MemoryNetwork.get_memory_statistics()
GetMemoryStatistics(n) ==
    LET ids == DOMAIN n.memories
        stamps == {n.memories[id].timestamp : id \in ids}
    IN  [total_memories |-> Cardinality(ids),
         average_importance |-> Mean([id \in ids |-> n.memories[id].importance], ids),
         average_retrieval_count |->
             Mean([id \in ids |-> RatInt(n.memories[id].retrieval_count)], ids),
         total_associations |->
             SumOver([id \in ids |-> Len(n.memories[id].associations)], ids) \div 2,
         memory_age_range |->
             IF ids = {} THEN PyNone
             ELSE Py("tuple", <<CHOOSE t \in stamps : \A u \in stamps : t <= u,
                                CHOOSE t \in stamps : \A u \in stamps : t >= u>>)]

-----------------------------------------------------------------------------
(* What the producer passes in *)

ClockStart == 2 * HourScale

Location == <<<<"l">>, <<"w">>>>      \* the context pair l: w

BaseArgs ==
    [content |-> Py("str", <<"a">>),
     timestamp |-> Py("datetime", ClockStart),
     importance |-> Py("float", Rat(1, 2)),
     emotional_valence |-> Py("float", RatInt(0)),
     context |-> Py("dict", {Location}),
     tags |-> Py("set", {"t1"}),
     retrieval_count |-> Py("int", 0),
     last_accessed |-> PyNone,
     associations |-> PyNone]

Contents == {<<"a">>, <<"b">>}

\* records that differ in what decides an association: the strength of two of
\* them is 0.7 or exactly 0.3, in float arithmetic as well
AssociationArgs ==
    {[BaseArgs EXCEPT !.content = Py("str", c),
                      !.emotional_valence = Py("float", k[2]),
                      !.context = Py("dict", k[1]),
                      !.tags = Py("set", {})] :
        c \in Contents,
        k \in {<<{Location}, RatInt(1)>>, <<{Location}, RatInt(-1)>>}}

\* records that differ in what decides an eviction
EvictionArgs ==
    {[BaseArgs EXCEPT !.timestamp = Py("datetime", ts),
                      !.importance = Py("float", k[1]),
                      !.retrieval_count = Py("int", k[2])] :
        ts \in {ClockStart, ClockStart + 1},
        k \in {<<Rat(1, 2), 0>>, <<Rat(3, 5), 10>>, <<Rat(1, 2), 20>>}}

\* arguments that MemoryTrace rejects, and three it accepts: one of these has
\* the empty context and the empty tag set of the records of test_invalid_inputs
ValidationArgs ==
    {BaseArgs,
     [BaseArgs EXCEPT !.content = Py("str", <<"b">>), !.importance = Py("float", RatInt(1))],
     [BaseArgs EXCEPT !.context = Py("dict", {}), !.tags = Py("set", {})],
     [BaseArgs EXCEPT !.content = Py("str", <<>>)],
     [BaseArgs EXCEPT !.importance = Py("float", Rat(3, 2))],
     [BaseArgs EXCEPT !.importance = Py("float", Rat(-1, 10))],
     [BaseArgs EXCEPT !.emotional_valence = Py("float", RatInt(2))],
     [BaseArgs EXCEPT !.emotional_valence = Py("float", Rat(-11, 10))],
     [BaseArgs EXCEPT !.context = Py("str", {})],
     [BaseArgs EXCEPT !.tags = Py("list", {})],
     [BaseArgs EXCEPT !.retrieval_count = Py("int", -1)]}

\* records of identical importance and zero retrieval count whose timestamps
\* lie before and after the clock (test_memory_capacity: base_time + i minutes)
RecencyArgs ==
    {[BaseArgs EXCEPT !.content = Py("str", k[1]), !.timestamp = Py("datetime", k[2])] :
        k \in {<<<<"a">>, ClockStart - 3>>, <<<<"b">>, ClockStart + 3>>,
                <<<<"c">>, ClockStart + 5>>}}

Activity == <<<<"a">>, <<"p">>>>      \* the context pair a: p

Meeting == <<<<"a">>, <<"m">>>>       \* the context pair a: m

\* records for the filters of retrieve_memories: they differ in context, tags,
\* hour, valence, importance, retrieval count and the case of the content
QueryArgs ==
    {[BaseArgs EXCEPT !.emotional_valence = Py("float", Rat(1, 10)),
                      !.context = Py("dict", {Location, Activity})],
     [BaseArgs EXCEPT !.timestamp = Py("datetime", ClockStart + HourScale + 300),
                      !.emotional_valence = Py("float", Rat(1, 5)),
                      !.context = Py("dict", {Location, Meeting}),
                      !.tags = Py("set", {"t2"}),
                      !.retrieval_count = Py("int", 1)],
     [BaseArgs EXCEPT !.content = Py("str", <<"A", "b">>),
                      !.importance = Py("float", Rat(3, 10)),
                      !.tags = Py("set", {"t1", "t2"})]}

Pools == {"associations", "eviction", "validation", "recency", "queries", "lookups"}

PoolArgs(p) ==
    CASE p = "associations" -> AssociationArgs
      [] p = "eviction" -> EvictionArgs
      [] p = "recency" -> RecencyArgs
      [] p = "queries" -> QueryArgs
      [] p = "lookups" -> AssociationArgs
      [] OTHER -> ValidationArgs

\* what MemoryNetwork.store_memory is handed that is no MemoryTrace
PoolOthers(p) == IF p = "validation" THEN {Py("dict", Trace(BaseArgs))} ELSE {}

Queries == {EmptyQuery, QueryFor(Trace(BaseArgs))}

\* the queries put to the records of QueryArgs
FilterQueries ==
    {EmptyQuery,
     [EmptyQuery EXCEPT !.content = Py("str", <<"A">>)],
     [EmptyQuery EXCEPT !.context = Py("dict", {Location, Activity})],
     [EmptyQuery EXCEPT !.time_range = Py("tuple", <<ClockStart + 2400,
                                                     ClockStart + HourScale + 600>>)],
     [EmptyQuery EXCEPT !.time_range = Py("tuple", <<22 * HourScale, 23 * HourScale>>)],
     [EmptyQuery EXCEPT !.tags = Py("set", {"t1"})],
     [EmptyQuery EXCEPT !.emotional_range = Py("tuple", <<Rat(3, 25), Rat(9, 50)>>)],
     [EmptyQuery EXCEPT !.importance_threshold = Py("float", Rat(1, 2))],
     [EmptyQuery EXCEPT !.content = Py("str", <<"b">>), !.tags = Py("set", {"t2"}),
                        !.importance_threshold = Py("float", Rat(3, 10))]}

PoolQueries(p) ==
    CASE p = "queries" -> FilterQueries
      [] p = "lookups" -> {}
      [] OTHER -> Queries

\* how many retrieve_memories calls the producer makes: one more where the
\* filters are exercised, so that a query is repeated
RetrievalBound(p) == IF p = "queries" THEN MaxRetrievals + 1 ELSE MaxRetrievals

\* an identifier store_memory never hands out: it numbers a record by the
\* count of stored records, which stays within MaxMemories
UnknownId == MemoryId(MaxMemories + 1, <<>>)

\* the (threshold, max_results) pairs get_associated_memories is called with:
\* the defaults of the signature, and a threshold equal to a stored strength
\* with room for a single edge
LookupArgs ==
    {[threshold |-> Rat(3, 10), max_results |-> 10],
     [threshold |-> Rat(7, 10), max_results |-> 1]}

PoolLookups(p) == IF p = "lookups" THEN LookupArgs ELSE {}

\* whether the producer asks for the statistics
PoolInspects(p) == p = "lookups"

-----------------------------------------------------------------------------
(* The state machine *)

NoMemories == [x \in {} |-> 0]

\* MemoryNetwork(capacity)
Init ==
    /\ capacity \in 0..MaxCapacity
    /\ pool \in Pools
    /\ memories = NoMemories
    /\ order = <<>>
    /\ context_index = NoMemories
    /\ temporal_index = NoMemories
    /\ emotional_index = NoMemories
    /\ tag_index = NoMemories
    /\ association_strength = NoMemories
    /\ clock = ClockStart
    /\ retrievals = 0
    /\ last = [op |-> "__init__", raised |-> "none", at |-> "none"]

Commit(n) ==
    /\ memories' = n.memories
    /\ order' = n.order
    /\ context_index' = n.context_index
    /\ temporal_index' = n.temporal_index
    /\ emotional_index' = n.emotional_index
    /\ tag_index' = n.tag_index
    /\ association_strength' = n.association_strength

\* what a store_memory call leaves in last: passed is the type of the object
\* handed over (arg: its constructor arguments, or the object itself), id the
\* identifier the call returns (or would have returned), evicted the records
\* it removed
StoreOutcome(a, passed, id, after) ==
    [op |-> "store_memory", arg |-> a, passed |-> passed,
     raised |-> after.raised, at |-> after.at,
     id |-> id, now |-> clock, evicted |-> after.removed]

\* the states in which the model goes on storing
StoreBound ==
    /\ Len(order) <= MaxMemories
    /\ \A id \in DOMAIN memories : Len(memories[id].associations) <= MaxAssociations

\* memory = MemoryTrace(a); network.store_memory(memory)
StoreMemory(a) ==
    /\ StoreBound
    /\ LET exc == PostInit(a)
       IN  IF exc # "none"
           THEN /\ last' = StoreOutcome(a, "MemoryTrace", <<>>,
                                        Raise(Net, exc, "__post_init__"))
                /\ UNCHANGED store_vars
           ELSE \E after \in StoreMemoryCall(Net, Py("MemoryTrace", Trace(a)),
                                              capacity, clock) :
                    /\ Commit(after)
                    /\ last' = StoreOutcome(a, "MemoryTrace",
                                            MemoryId(Len(order), a.content.val), after)
    /\ UNCHANGED <<capacity, clock, pool, retrievals>>

\* network.store_memory(obj) for an object that is no MemoryTrace
StoreOther(obj) ==
    /\ StoreBound
    /\ \E after \in StoreMemoryCall(Net, obj, capacity, clock) :
           /\ Commit(after)
           /\ last' = StoreOutcome(obj, obj.type, <<>>, after)
    /\ UNCHANGED <<capacity, clock, pool, retrievals>>

\* the call before this one was retrieve_memories with the same query and
\* returned
Repeats(q) ==
    last.op = "retrieve_memories" /\ last.raised = "none" /\ last.query = q

RetrieveMemories(q) ==
    /\ retrievals < RetrievalBound(pool)
    /\ retrievals' = retrievals + 1
    /\ IF QueryRaises(Net, q) # "none"
       THEN /\ last' = [op |-> "retrieve_memories", query |-> q,
                        raised |-> QueryRaises(Net, q), at |-> "retrieve_memories",
                        results |-> <<>>, now |-> clock, repeats |-> Repeats(q)]
            /\ UNCHANGED store_vars
       ELSE \E r \in ResultOrders(Net, Candidates(Net, q)) :
               /\ Commit(Touch(Net, Range(r), clock))
               /\ last' = [op |-> "retrieve_memories", query |-> q, raised |-> "none",
                           at |-> "none", results |-> r, now |-> clock,
                           repeats |-> Repeats(q)]
    /\ UNCHANGED <<capacity, clock, pool>>

\* the identifiers the producer asks about: the stored ones, the ones the
\* last store_memory call evicted, and one that was never handed out
LookupIds ==
    DOMAIN memories \cup {UnknownId}
        \cup (IF last.op = "store_memory"
              THEN {last.evicted[i].id : i \in DOMAIN last.evicted} ELSE {})

\* network.get_associated_memories(id, threshold, max_results)
GetAssociated(id, a) ==
    /\ LET out == GetAssociatedMemories(Net, id, a.threshold, a.max_results)
       IN  /\ Commit(out.net)
           /\ last' = [op |-> "get_associated_memories", memory_id |-> id,
                       threshold |-> a.threshold, max_results |-> a.max_results,
                       raised |-> out.net.raised, at |-> out.net.at,
                       results |-> out.result]
    /\ UNCHANGED <<capacity, clock, pool, retrievals>>

\* network.get_memory_statistics()
GetStatistics ==
    /\ PoolInspects(pool)
    /\ last' = [op |-> "get_memory_statistics", raised |-> "none", at |-> "none",
                stats |-> GetMemoryStatistics(Net)]
    /\ UNCHANGED <<capacity, clock, pool, retrievals>>
    /\ UNCHANGED store_vars

Tick ==
    /\ clock < ClockStart + MaxTicks
    /\ clock' = clock + 1
    /\ UNCHANGED <<capacity, pool, retrievals, last>>
    /\ UNCHANGED store_vars

Next ==
    \/ \E a \in PoolArgs(pool) : StoreMemory(a)
    \/ \E obj \in PoolOthers(pool) : StoreOther(obj)
    \/ \E q \in PoolQueries(pool) : RetrieveMemories(q)
    \/ \E id \in LookupIds, a \in PoolLookups(pool) : GetAssociated(id, a)
    \/ GetStatistics
    \/ Tick

Spec == Init /\ [][Next]_vars

-----------------------------------------------------------------------------
(* MemoryTrace(a) on its own, over every combination of good and bad fields *)

ConstructorArgs ==
    {[content |-> Py("str", c), timestamp |-> Py(tst, ClockStart),
      importance |-> imp, emotional_valence |-> Py("float", v),
      context |-> Py(ct, {Location}), tags |-> Py(tt, {}),
      retrieval_count |-> Py("int", rc), last_accessed |-> la,
      associations |-> as] :
        c \in {<<>>, <<"a">>}, tst \in {"datetime", "str"},
        imp \in {Py("float", Rat(-1, 10)), Py("float", RatInt(0)), Py("float", RatInt(1)),
                 Py("float", Rat(11, 10)), Py("str", Rat(1, 2))},
        v \in {Rat(-11, 10), RatInt(-1), RatInt(1), Rat(11, 10)},
        ct \in {"dict", "str"}, tt \in {"set", "list"}, rc \in {-1, 0},
        la \in {PyNone, Py("datetime", ClockStart), Py("str", ClockStart)},
        as \in {PyNone, Py("list", <<>>), Py("str", <<>>)}}

Construct ==
    /\ last.op = "call MemoryTrace"
    /\ last' = [op |-> "MemoryTrace", arg |-> last.arg, raised |-> PostInit(last.arg),
                at |-> IF PostInit(last.arg) = "none" THEN "none" ELSE "__post_init__"]
    /\ UNCHANGED <<capacity, clock, pool, retrievals>>
    /\ UNCHANGED store_vars

InitConstruct ==
    /\ capacity = 0
    /\ pool = "constructor"
    /\ memories = NoMemories
    /\ order = <<>>
    /\ context_index = NoMemories
    /\ temporal_index = NoMemories
    /\ emotional_index = NoMemories
    /\ tag_index = NoMemories
    /\ association_strength = NoMemories
    /\ clock = ClockStart
    /\ retrievals = 0
    /\ last \in {[op |-> "call MemoryTrace", arg |-> a, raised |-> "none", at |-> "none"] :
                    a \in ConstructorArgs}

NextConstruct == Construct

SpecConstruct == InitConstruct /\ [][NextConstruct]_vars

-----------------------------------------------------------------------------
(* _calculate_association_strength on its own, over pairs of records *)

StrengthTraces ==
    {Trace([BaseArgs EXCEPT !.context = Py("dict", x), !.tags = Py("set", t),
                            !.timestamp = Py("datetime", ts),
                            !.emotional_valence = Py("float", v)]) :
        x \in {{}, {Location, Activity}, {Location, Meeting}},
        t \in {{}, {"t1", "t2", "t3"}, {"t1", "t2", "t4"}},
        ts \in {ClockStart, ClockStart + HourScale},
        v \in {Rat(3, 5), Rat(1, 2), RatInt(-1), RatInt(1)}}

Strength ==
    /\ last.op = "call _calculate_association_strength"
    /\ LET m1 == last.memory1
           m2 == last.memory2
       IN  last' = [op |-> "_calculate_association_strength",
                    memory1 |-> m1, memory2 |-> m2,
                    raised |-> IF StrengthRaises(m1, m2) THEN "ZeroDivisionError"
                               ELSE "none",
                    at |-> IF StrengthRaises(m1, m2)
                           THEN "_calculate_association_strength" ELSE "none",
                    strength |-> IF StrengthRaises(m1, m2) THEN RatInt(0)
                                 ELSE CalculateAssociationStrength(m1, m2)]
    /\ UNCHANGED <<capacity, clock, pool, retrievals>>
    /\ UNCHANGED store_vars

InitStrength ==
    /\ capacity = 0
    /\ pool = "strength"
    /\ memories = NoMemories
    /\ order = <<>>
    /\ context_index = NoMemories
    /\ temporal_index = NoMemories
    /\ emotional_index = NoMemories
    /\ tag_index = NoMemories
    /\ association_strength = NoMemories
    /\ clock = ClockStart
    /\ retrievals = 0
    /\ last \in {[op |-> "call _calculate_association_strength",
                   memory1 |-> m1, memory2 |-> m2, raised |-> "none", at |-> "none",
                   strength |-> RatInt(0)] :
                    m1 \in StrengthTraces, m2 \in StrengthTraces}

NextStrength == Strength

SpecStrength == InitStrength /\ [][NextStrength]_vars

-----------------------------------------------------------------------------
(* Calls that run at the same time.  The code takes no lock, so the steps of  *)
(* one call interleave freely with the steps of another.  last holds what     *)
(* each call has in its local variables: readers[t] for the retrieve_memories *)
(* call of thread t, writer for the store_memory call.                        *)

Stages ==
    <<"content", "context", "time_range", "tags", "emotional_range",
      "importance_threshold", "lookup">>

\* the stage after stage st
StageAfter(st) == Stages[1 + CHOOSE i \in DOMAIN Stages : Stages[i] = st]

\* the condition of the if statement that guards a filter
FilterApplies(q, st) ==
    CASE st = "content" -> q.content.type = "str" /\ q.content.val # <<>>
      [] st = "context" -> q.context.type = "dict" /\ q.context.val # {}
      [] st = "time_range" -> q.time_range.type = "tuple"
      [] st = "tags" -> q.tags.type = "set" /\ q.tags.val # {}
      [] st = "emotional_range" -> q.emotional_range.type = "tuple"
      [] OTHER -> q.importance_threshold.type = "float"

\* the set a filter intersects candidate_memories with
FilterMatches(n, q, st) ==
    CASE st = "content" -> ContentMatches(n, q.content.val)
      [] st = "context" -> ContextMatches(n, q.context.val)
      [] st = "time_range" ->
             ScanHours(n, q.time_range.val[1], q.time_range.val[2], {}).ids
      [] st = "tags" -> TagMatches(n, q.tags.val)
      [] st = "emotional_range" ->
             EmotionalMatches(n, q.emotional_range.val[1], q.emotional_range.val[2])
      [] OTHER -> ImportanceMatches(n, q.importance_threshold.val)

\* the bucket keys a filter reads from its dimension index
KeysRead(q, st) ==
    CASE st = "context" -> {ContextKey(pr) : pr \in q.context.val}
      [] st = "time_range" ->
             {HourKey(q.time_range.val[1] + i * HourScale) :
                 i \in 0..((q.time_range.val[2] - q.time_range.val[1]) \div HourScale)}
      [] st = "tags" -> q.tags.val
      [] st = "emotional_range" ->
             {EmotionKey(RatAdd(q.emotional_range.val[1], Rat(i, 10))) :
                 i \in 0..(ArangeLen(q.emotional_range.val[1],
                                     q.emotional_range.val[2]) - 1)}
      [] OTHER -> {}

\* the bucket keys under which _update_indices has put record m
KeysOf(m, st) ==
    CASE st = "context" -> ContextKeys(m)
      [] st = "time_range" -> {HourKey(m.timestamp)}
      [] st = "tags" -> m.tags
      [] st = "emotional_range" -> {EmotionKey(m.emotional_valence)}
      [] OTHER -> {}

\* the local variables of a retrieve_memories call: hits are the identifiers
\* it has found in an index bucket, misses the identifiers of stored records
\* that it did not find in a bucket it read although the record has that key
NewReader ==
    [pc |-> "call", query |-> EmptyQuery, candidates |-> {}, results |-> <<>>,
     i |-> 0, count |-> 0, hits |-> {}, misses |-> {}, raised |-> "none"]

\* the local variables of a store_memory call
NewWriter(a) ==
    [pc |-> "call", arg |-> a, id |-> <<>>, victims |-> <<>>, raised |-> "none"]

IdleWriter == [NewWriter(BaseArgs) EXCEPT !.pc = "idle"]

\* the queries of the concurrent calls
ThreadQueries ==
    {EmptyQuery,
     [EmptyQuery EXCEPT !.context = Py("dict", {Location}), !.tags = Py("set", {"t1"})]}

EmptyNetwork ==
    [memories |-> NoMemories, order |-> <<>>,
     context_index |-> NoMemories, temporal_index |-> NoMemories,
     emotional_index |-> NoMemories, tag_index |-> NoMemories,
     association_strength |-> NoMemories,
     removed |-> <<>>, raised |-> "none", at |-> "none"]

\* the networks that storing the records of args one after the other leaves
RECURSIVE StoredAfter(_, _, _)
StoredAfter(nets, args, cap) ==
    IF args = <<>> THEN nets
    ELSE StoredAfter(UNION {StoreMemoryCall(n, Py("MemoryTrace", Trace(Head(args))),
                                            cap, ClockStart) : n \in nets},
                     Tail(args), cap)

\* candidate_memories = set(self.memories.keys())
Begin(t) ==
    /\ last.readers[t].pc = "call"
    /\ \E q \in ThreadQueries :
           last' = [last EXCEPT !.readers[t].query = q,
                                !.readers[t].candidates = DOMAIN memories,
                                !.readers[t].pc = Stages[1]]
    /\ UNCHANGED <<capacity, clock, pool, retrievals>>
    /\ UNCHANGED store_vars

\* one of the six filters: if query.<field>: candidate_memories &= matches
ApplyFilter(t) ==
    LET r == last.readers[t]
        found == FilterMatches(Net, r.query, r.pc)
        missed == {id \in DOMAIN memories :
                      /\ KeysOf(memories[id], r.pc) \cap KeysRead(r.query, r.pc) # {}
                      /\ id \notin found}
    IN  /\ r.pc \in Range(Stages) \ {"lookup"}
        /\ last' =
               IF ~FilterApplies(r.query, r.pc)
               THEN [last EXCEPT !.readers[t].pc = StageAfter(r.pc)]
               ELSE IF r.pc = "time_range" /\ QueryRaises(Net, r.query) # "none"
               THEN [last EXCEPT !.readers[t].pc = "done",
                                 !.readers[t].raised = QueryRaises(Net, r.query)]
               ELSE [last EXCEPT
                        !.readers[t].candidates = @ \cap found,
                        !.readers[t].hits =
                            IF KeysRead(r.query, r.pc) = {} THEN @ ELSE @ \cup found,
                        !.readers[t].misses = @ \cup missed,
                        !.readers[t].pc = StageAfter(r.pc)]
        /\ UNCHANGED <<capacity, clock, pool, retrievals>>
        /\ UNCHANGED store_vars

\* results = [(memory_id, self.memories[memory_id]) for ...]; results.sort(...)
LookUp(t) ==
    LET r == last.readers[t]
    IN  /\ r.pc = "lookup"
        /\ IF ~(r.candidates \subseteq DOMAIN memories)
           THEN last' = [last EXCEPT !.readers[t].pc = "done",
                                     !.readers[t].raised = "KeyError"]
           ELSE \E res \in ResultOrders(Net, r.candidates) :
                    last' = [last EXCEPT !.readers[t].results = res,
                                         !.readers[t].i = 1,
                                         !.readers[t].pc =
                                             IF res = <<>> THEN "done" ELSE "read"]
        /\ UNCHANGED <<capacity, clock, pool, retrievals>>
        /\ UNCHANGED store_vars

\* memory.retrieval_count += 1, first half: the count is loaded
ReadCount(t) ==
    LET r == last.readers[t]
    IN  /\ r.pc = "read"
        /\ r.results[r.i] \in DOMAIN memories
        /\ last' = [last EXCEPT !.readers[t].count =
                                    memories[r.results[r.i]].retrieval_count,
                                !.readers[t].pc = "write"]
        /\ UNCHANGED <<capacity, clock, pool, retrievals>>
        /\ UNCHANGED store_vars

\* memory.retrieval_count += 1, second half: the sum is stored; then
\* memory.last_accessed = datetime.now() and the loop goes on
WriteCount(t) ==
    LET r == last.readers[t]
        id == r.results[r.i]
    IN  /\ r.pc = "write"
        /\ id \in DOMAIN memories
        /\ memories' = [memories EXCEPT ![id].retrieval_count = r.count + 1,
                                        ![id].last_accessed = Py("datetime", clock)]
        /\ last' = [last EXCEPT !.readers[t].i = @ + 1,
                                !.readers[t].pc =
                                    IF r.i = Len(r.results) THEN "done" ELSE "read"]
        /\ UNCHANGED <<capacity, clock, pool, retrievals, order, context_index,
                       temporal_index, emotional_index, tag_index, association_strength>>

\* the record of a result that has left the store is still updated, as an
\* object the store no longer holds
UpdateDetached(t) ==
    LET r == last.readers[t]
    IN  /\ r.pc \in {"read", "write"}
        /\ r.results[r.i] \notin DOMAIN memories
        /\ last' = [last EXCEPT !.readers[t].i = @ + 1,
                                !.readers[t].pc =
                                    IF r.i = Len(r.results) THEN "done" ELSE "read"]
        /\ UNCHANGED <<capacity, clock, pool, retrievals>>
        /\ UNCHANGED store_vars

\* store_memory up to the choice of the records to remove: the record is
\* named, stored, indexed and linked, the scores are taken and sorted
Insert ==
    LET w == last.writer
        n == Inserted(Net, Trace(w.arg))
        k == Len(n.order) - capacity
    IN  /\ w.pc = "call"
        /\ PostInit(w.arg) = "none"
        /\ n.raised = "none"
        /\ \A id \in DOMAIN n.memories : ~ScoreRaises(n.memories[id], clock)
        /\ Commit(n)
        /\ \E p \in (IF k > 0 THEN LowestScoring(n, k, clock) ELSE {<<>>}) :
               last' = [last EXCEPT
                           !.writer.id = MemoryId(Len(order), w.arg.content.val),
                           !.writer.victims = p,
                           !.writer.pc = IF p = <<>> THEN "done" ELSE "context_index"]
        /\ UNCHANGED <<capacity, clock, pool, retrievals>>

\* _remove_memory(victim), one statement group at a time
RemoveStep ==
    LET w == last.writer
        id == Head(w.victims)
        m == memories[id]
        unlinked == RemoveAssociationsFrom(Net, id, m.associations, 1)
    IN  /\ w.pc \in {"context_index", "temporal_index", "emotional_index",
                     "tag_index", "associations", "memories"}
        /\ CASE w.pc = "context_index" ->
                   /\ context_index' = IndexDiscardAll(context_index, ContextKeys(m), id)
                   /\ last' = [last EXCEPT !.writer.pc = "temporal_index"]
                   /\ UNCHANGED <<memories, order, temporal_index, emotional_index,
                                  tag_index, association_strength>>
             [] w.pc = "temporal_index" ->
                   /\ temporal_index' =
                          IndexDiscard(temporal_index, HourKey(m.timestamp), id)
                   /\ last' = [last EXCEPT !.writer.pc = "emotional_index"]
                   /\ UNCHANGED <<memories, order, context_index, emotional_index,
                                  tag_index, association_strength>>
             [] w.pc = "emotional_index" ->
                   /\ emotional_index' =
                          IndexDiscard(emotional_index, EmotionKey(m.emotional_valence), id)
                   /\ last' = [last EXCEPT !.writer.pc = "tag_index"]
                   /\ UNCHANGED <<memories, order, context_index, temporal_index,
                                  tag_index, association_strength>>
             [] w.pc = "tag_index" ->
                   /\ tag_index' = IndexDiscardAll(tag_index, m.tags, id)
                   /\ last' = [last EXCEPT !.writer.pc = "associations"]
                   /\ UNCHANGED <<memories, order, context_index, temporal_index,
                                  emotional_index, association_strength>>
             [] w.pc = "associations" ->
                   /\ Commit(unlinked)
                   /\ last' = IF unlinked.raised # "none"
                              THEN [last EXCEPT !.writer.pc = "done",
                                                !.writer.raised = unlinked.raised]
                              ELSE [last EXCEPT !.writer.pc = "memories"]
             [] OTHER ->
                   /\ memories' = Without(memories, id)
                   /\ order' = Filter(order, id)
                   /\ last' = [last EXCEPT
                                  !.writer.victims = Tail(@),
                                  !.writer.pc = IF Tail(w.victims) = <<>> THEN "done"
                                                ELSE "context_index"]
                   /\ UNCHANGED <<context_index, temporal_index, emotional_index,
                                  tag_index, association_strength>>
        /\ UNCHANGED <<capacity, clock, pool, retrievals>>

\* a store with one, two or three of the records of QueryArgs in it, and the
\* calls about to start
InitThreads(readers, writers) ==
    /\ capacity = MaxCapacity
    /\ pool = "threads"
    /\ clock = ClockStart
    /\ retrievals = 0
    /\ \E a \in QueryArgs, b \in QueryArgs, w \in writers :
           \E n \in StoredAfter({EmptyNetwork}, IF a = b THEN <<a>> ELSE <<a, b>>,
                                 MaxCapacity) :
               /\ memories = n.memories
               /\ order = n.order
               /\ context_index = n.context_index
               /\ temporal_index = n.temporal_index
               /\ emotional_index = n.emotional_index
               /\ tag_index = n.tag_index
               /\ association_strength = n.association_strength
               /\ last = [op |-> "threads", start |-> n.memories,
                          readers |-> [t \in readers |-> NewReader], writer |-> w]

\* two retrieve_memories calls side by side
InitRetrievers == InitThreads({1, 2}, {IdleWriter})

NextRetrievers ==
    \/ \E t \in DOMAIN last.readers : Begin(t)
    \/ \E t \in DOMAIN last.readers : ApplyFilter(t)
    \/ \E t \in DOMAIN last.readers : LookUp(t)
    \/ \E t \in DOMAIN last.readers : ReadCount(t)
    \/ \E t \in DOMAIN last.readers : WriteCount(t)

SpecRetrievers == InitRetrievers /\ [][NextRetrievers]_vars

\* a retrieve_memories call beside a store_memory call
InitEviction == InitThreads({1}, {NewWriter(a) : a \in QueryArgs})

NextEviction ==
    \/ \E t \in DOMAIN last.readers : Begin(t)
    \/ \E t \in DOMAIN last.readers : ApplyFilter(t)
    \/ \E t \in DOMAIN last.readers : LookUp(t)
    \/ \E t \in DOMAIN last.readers : ReadCount(t)
    \/ \E t \in DOMAIN last.readers : WriteCount(t)
    \/ \E t \in DOMAIN last.readers : UpdateDetached(t)
    \/ Insert
    \/ RemoveStep

SpecEviction == InitEviction /\ [][NextEviction]_vars

-----------------------------------------------------------------------------
(* Properties of the store, checked under Spec unless said otherwise *)

StoreReturned == last.op = "store_memory" /\ last.raised = "none"

Associations(id) == Range(memories[id].associations)

AllBuckets ==
    UNION ({context_index[k] : k \in DOMAIN context_index}
           \cup {temporal_index[k] : k \in DOMAIN temporal_index}
           \cup {emotional_index[k] : k \in DOMAIN emotional_index}
           \cup {tag_index[k] : k \in DOMAIN tag_index})

\* C1: whenever a store_memory call has returned, the number of stored records
\* is at most the capacity.
C1_CapacityOnReturn == StoreReturned => Len(order) <= capacity

\* C1 witness: a store_memory call that found the store over capacity after an
\* earlier call had raised, removed two records and returned with a full store.
C1_Witness ==
    /\ StoreReturned
    /\ Len(last.evicted) = 2
    /\ capacity > 0
    /\ Len(order) = capacity

\* C2: store_memory of a valid record returns an identifier that is a key of
\* the store, maps to the record passed in, and is among the results of the
\* query built from the record's own context, tags, timestamp and valence.
C2_StoredIsRetrievable ==
    (StoreReturned /\ last.passed = "MemoryTrace" /\ capacity > 0) =>
        /\ last.id \in DOMAIN memories
        /\ [memories[last.id] EXCEPT !.associations = <<>>] = Trace(last.arg)
        /\ last.id \in Candidates(Net, QueryFor(Trace(last.arg)))

\* C3: association symmetry: for all stored a and b, b is in associations(a)
\* iff a is in associations(b), and the strengths stored for (a,b) and (b,a)
\* are equal.
C3_AssociationSymmetry ==
    StoreReturned =>
        \A a \in DOMAIN memories : \A b \in DOMAIN memories :
            /\ b \in Associations(a) <=> a \in Associations(b)
            /\ b \in Associations(a) =>
                 /\ <<a, b>> \in DOMAIN association_strength
                 /\ <<b, a>> \in DOMAIN association_strength
                 /\ association_strength[<<a, b>>] = association_strength[<<b, a>>]

\* C4: eviction consistency: after a store_memory call has evicted record x,
\* no index bucket contains x's identifier, x is no key of the store and no
\* surviving record's associations contains x.
C4_EvictionConsistency ==
    StoreReturned =>
        \A i \in DOMAIN last.evicted :
            LET x == last.evicted[i].id
            IN  /\ x \notin AllBuckets
                /\ x \notin DOMAIN memories
                /\ \A s \in DOMAIN memories : x \notin Associations(s)

\* what C5 and C6 call a value out of range and a wrong shape
RangeViolated(a) ==
    \/ a.content.val = <<>>
    \/ a.importance.type # "float"
    \/ RatLess(a.importance.val, RatInt(0)) \/ RatLess(RatInt(1), a.importance.val)
    \/ a.emotional_valence.type # "float"
    \/ RatLess(a.emotional_valence.val, RatInt(-1))
    \/ RatLess(RatInt(1), a.emotional_valence.val)
    \/ a.retrieval_count.val < 0

Rejected(l) ==
    /\ l.op = "store_memory"
    /\ \/ l.passed # "MemoryTrace"
       \/ /\ l.passed = "MemoryTrace"
          /\ \/ RangeViolated(l.arg)
             \/ l.arg.context.type # "dict"
             \/ l.arg.tags.type # "set"

\* C5: a rejected record leaves the store unchanged: a call whose record fails
\* validation (empty content, importance or valence out of range, context no
\* dict, tags no set, negative retrieval count) or whose argument is no
\* MemoryTrace changes neither the records, nor an index, nor an association,
\* nor a strength.
C5_RejectedLeavesStore == [][Rejected(last') => UNCHANGED store_vars]_vars

\* C5 witness: a record rejected by a store that holds a record.
C5_Witness == Rejected(last) /\ last.raised # "none" /\ Len(order) > 0

\* C7: once a record has passed validation, store_memory completes without
\* raising.
C7_StoreNeverRaises ==
    (last.op = "store_memory" /\ last.passed = "MemoryTrace" /\ last.at # "__post_init__")
        => last.raised = "none"

Edge(r, o) ==
    /\ o \in Associations(r)
    /\ r \in Associations(o)
    /\ <<r, o>> \in DOMAIN association_strength
    /\ <<o, r>> \in DOMAIN association_strength
    /\ association_strength[<<r, o>>] = association_strength[<<o, r>>]
    /\ association_strength[<<r, o>>] =
           CalculateAssociationStrength(memories[r], memories[o])

\* C8: when store_memory has inserted record r and returned, then for every
\* other record o in the store a bidirectional edge between r and o is
\* recorded (each lists the other, both ordered pairs carry the strength) if
\* and only if their strength is strictly greater than 0.3.
C8_EdgeIffAboveThreshold ==
    (StoreReturned /\ last.passed = "MemoryTrace" /\ last.id \in DOMAIN memories) =>
        \A o \in DOMAIN memories \ {last.id} :
            Edge(last.id, o) <=>
                RatLess(Rat(3, 10),
                        CalculateAssociationStrength(memories[last.id], memories[o]))

\* C8 witness: a record inserted next to one with which its strength is
\* exactly 0.3, and no edge between them.
C8_Witness ==
    /\ StoreReturned /\ last.passed = "MemoryTrace" /\ last.id \in DOMAIN memories
    /\ \E o \in DOMAIN memories \ {last.id} :
          /\ CalculateAssociationStrength(memories[last.id], memories[o]) = Rat(3, 10)
          /\ last.id \notin Associations(o)
          /\ o \notin Associations(last.id)

\* the score of section 4.4: the usage term is capped at retrieval count 10
CappedScore(m, now) ==
    RatAdd(RatAdd(RatMul(Rat(4, 10), m.importance),
                  RatMul(Rat(3, 10), Rat(1, 1 + (now - m.timestamp)))),
           RatMul(Rat(3, 10), Rat(Min(m.retrieval_count, 10), 10)))

\* C10: the records a store_memory call removes are the lowest-scoring ones,
\* where score = 0.4*importance + 0.3*recency + 0.3*min(retrieval_count,10)/10:
\* no removed record scores higher than a record that stays.
C10_EvictsLowestCappedScore ==
    (StoreReturned /\ last.evicted # <<>>) =>
        \A i \in DOMAIN last.evicted : \A s \in DOMAIN memories :
            RatLeq(CappedScore(last.evicted[i].memory, last.now),
                   CappedScore(memories[s], last.now))

-----------------------------------------------------------------------------
(* Properties of MemoryTrace construction, checked under SpecConstruct *)

ShapeViolated(a) ==
    \/ a.timestamp.type # "datetime"
    \/ a.context.type # "dict"
    \/ a.tags.type # "set"
    \/ a.associations.type \notin {"NoneType", "list"}
    \/ a.last_accessed.type \notin {"NoneType", "datetime"}

-----------------------------------------------------------------------------
(* Properties of the association strength, checked under SpecStrength *)

\* the strength of section 4.3: emotional similarity is 1 - |difference| / 2
HalvedEmotionalSim(m1, m2) ==
    RatSub(RatInt(1),
           RatMul(Rat(1, 2), RatAbs(RatSub(m1.emotional_valence, m2.emotional_valence))))

\* C9: the strength of two records is 0.3*context_similarity +
\* 0.3*tag_similarity + 0.2*temporal_similarity + 0.2*emotional_similarity
\* with emotional_similarity = 1 - |valence difference| / 2, which lies in
\* [0,1]; tag_similarity is 0 when a tag set is empty, temporal_similarity 1
\* for no time gap and 1/2 for a gap of one hour.
C9_StrengthFormula ==
    (last.op = "_calculate_association_strength" /\ last.raised = "none") =>
        LET m1 == last.memory1
            m2 == last.memory2
        IN  /\ last.strength =
                 RatAdd(RatAdd(RatAdd(RatMul(Rat(3, 10), ContextSim(m1, m2)),
                                      RatMul(Rat(3, 10), TagSim(m1, m2))),
                               RatMul(Rat(2, 10), TemporalSim(m1, m2))),
                        RatMul(Rat(2, 10), HalvedEmotionalSim(m1, m2)))
            /\ (m1.tags = {} \/ m2.tags = {}) => TagSim(m1, m2) = RatInt(0)
            /\ m1.timestamp = m2.timestamp => TemporalSim(m1, m2) = RatInt(1)
            /\ Abs(m1.timestamp - m2.timestamp) = 3600 => TemporalSim(m1, m2) = Rat(1, 2)

-----------------------------------------------------------------------------
(* Properties of eviction order and of eviction failures, checked under Spec *)

\* the records a store_memory call has left in the store or removed from it
Participants ==
    {memories[id] : id \in DOMAIN memories}
        \cup {last.evicted[i].memory : i \in DOMAIN last.evicted}

\* the records that were in the store before the call
Earlier ==
    {memories[id] : id \in DOMAIN memories \ {last.id}}
        \cup {last.evicted[i].memory :
                i \in {j \in DOMAIN last.evicted : last.evicted[j].id # last.id}}

\* all records have the same importance and have never been retrieved, and
\* the record just inserted has a later timestamp than every other one
InsertedInTimestampOrder ==
    /\ \A m \in Participants :
          /\ m.importance = last.arg.importance.val
          /\ m.retrieval_count = 0
    /\ \A m \in Earlier : m.timestamp < last.arg.timestamp.val

\* C11: when records of identical importance and zero retrieval count are
\* inserted in strictly increasing timestamp order, an insertion that goes
\* over capacity leaves exactly capacity records and removes the oldest ones:
\* every removed record is older than every record that stays, wherever the
\* timestamps lie relative to the clock.
C11_OldestEvicted ==
    (StoreReturned /\ last.passed = "MemoryTrace" /\ last.evicted # <<>>
        /\ InsertedInTimestampOrder) =>
        /\ Len(order) = capacity
        /\ \A i \in DOMAIN last.evicted : \A id \in DOMAIN memories :
               last.evicted[i].memory.timestamp < memories[id].timestamp

\* C12: eviction never fails: no store_memory call raises while scoring the
\* records or while removing a record selected for eviction.
C12_EvictionNeverFails ==
    last.op = "store_memory" => last.at \notin {"_manage_capacity", "_remove_memory"}

-----------------------------------------------------------------------------
(* Properties of retrieve_memories, checked under Spec *)

Retrieved == last.op = "retrieve_memories" /\ last.raised = "none"

Returned == Range(last.results)

\* C13: a query with several context pairs returns only records whose context
\* contains every one of the given pairs.
C13_ContextMatchesAll ==
    (Retrieved /\ last.query.context.type = "dict") =>
        \A id \in Returned : last.query.context.val \subseteq memories[id].context

\* what C14 requires of a record for the content, tag and importance filters
\* of query q, each only if the query specifies it
Satisfies(m, q) ==
    /\ q.content.type = "str" => IsSubstring(LowerStr(q.content.val), LowerStr(m.content))
    /\ q.tags.type = "set" => m.tags \cap q.tags.val # {}
    /\ q.importance_threshold.type = "float" =>
           RatLeq(q.importance_threshold.val, m.importance)

\* C14: for a query that specifies any combination of content substring, tags
\* and importance floor (and nothing else), the identifiers returned are
\* exactly those of the stored records that satisfy every specified filter; a
\* query with no filter returns every stored record.
C14_FilterExact ==
    (Retrieved /\ last.query.context.type = "NoneType"
        /\ last.query.time_range.type = "NoneType"
        /\ last.query.emotional_range.type = "NoneType") =>
        Returned = {id \in DOMAIN memories : Satisfies(memories[id], last.query)}

\* the identifiers that pass the filters of q other than its time range
PassTimeless(q) == Candidates(Net, [q EXCEPT !.time_range = PyNone])

\* C15: a query with time_range [start, end], start <= end, returns every
\* stored record whose timestamp lies in the inclusive interval and that
\* passes the other filters, also when start and end have different minute
\* offsets within their hours.
C15_TimeRangeComplete ==
    (Retrieved /\ last.query.time_range.type = "tuple"
        /\ last.query.time_range.val[1] <= last.query.time_range.val[2]) =>
        \A id \in PassTimeless(last.query) :
            (/\ last.query.time_range.val[1] <= memories[id].timestamp
             /\ memories[id].timestamp <= last.query.time_range.val[2])
                => id \in Returned

\* the identifiers that pass the filters of q other than its emotional range
PassUnemotional(q) == Candidates(Net, [q EXCEPT !.emotional_range = PyNone])

\* valence rounded to one decimal place lies in [lo, hi]
DiscretizedWithin(m, lo, hi) ==
    /\ RatLeq(lo, EmotionKey(m.emotional_valence))
    /\ RatLeq(EmotionKey(m.emotional_valence), hi)

\* C16: a query with emotional_range [lo, hi], lo <= hi, returns every stored
\* record whose valence, discretized to one decimal place, lies in the
\* inclusive interval, and no record whose discretized valence lies outside
\* it, also when lo and hi are no multiples of 0.1.
C16_EmotionalRangeExact ==
    (Retrieved /\ last.query.emotional_range.type = "tuple"
        /\ RatLeq(last.query.emotional_range.val[1], last.query.emotional_range.val[2])) =>
        LET lo == last.query.emotional_range.val[1]
            hi == last.query.emotional_range.val[2]
        IN  /\ \A id \in PassUnemotional(last.query) :
                   DiscretizedWithin(memories[id], lo, hi) => id \in Returned
            /\ \A id \in Returned : DiscretizedWithin(memories[id], lo, hi)

\* C17: the sequence returned by retrieve_memories is ordered by importance
\* descending and, among records of equal importance, by retrieval_count (its
\* value before this query's increment) descending.
C17_ResultOrder ==
    Retrieved =>
        \A i \in DOMAIN last.results : \A j \in DOMAIN last.results :
            i < j =>
                LET a == memories[last.results[i]]
                    b == memories[last.results[j]]
                IN  /\ RatLeq(b.importance, a.importance)
                    /\ a.importance = b.importance =>
                           a.retrieval_count - 1 >= b.retrieval_count - 1

\* C17 witness: a result in which two records of equal importance follow each
\* other in the order of their different retrieval counts.
C17_Witness ==
    /\ Retrieved
    /\ Len(last.results) >= 2
    /\ memories[last.results[1]].importance = memories[last.results[2]].importance
    /\ memories[last.results[1]].retrieval_count > memories[last.results[2]].retrieval_count

RetrieveStep ==
    /\ retrievals' = retrievals + 1
    /\ last'.op = "retrieve_memories"
    /\ last'.raised = "none"

\* C18: every record returned by a retrieve_memories call has its
\* retrieval_count increased by exactly 1 by that call and its last_accessed
\* set; a query with importance floor f returns only records with
\* importance >= f.
C18_CountedOnce ==
    [][RetrieveStep =>
          \A id \in Range(last'.results) :
              /\ id \in DOMAIN memories
              /\ memories'[id].retrieval_count = memories[id].retrieval_count + 1
              /\ memories'[id].last_accessed = Py("datetime", clock)
              /\ last'.query.importance_threshold.type = "float" =>
                     RatLeq(last'.query.importance_threshold.val, memories'[id].importance)]_vars

\* C18 witness: a query with an importance floor over a mixed set has returned
\* one record and left one out.
C18_Witness ==
    /\ Retrieved
    /\ last.query.importance_threshold.type = "float"
    /\ Returned # {}
    /\ DOMAIN memories \ Returned # {}

\* C19: the same query run twice in immediate succession, with no store in
\* between, returns the same set of identifiers both times.
C19_QueryIdempotent ==
    [][(RetrieveStep /\ last'.repeats) => Range(last'.results) = Range(last.results)]_vars

\* C19 witness: a query repeated at once that returned a record both times.
C19_Witness == Retrieved /\ last.repeats /\ Returned # {}

\* C20: retrieve_memories returns without raising for every well-formed query
\* in every reachable state, including a time_range with start <= end that
\* reaches hour 23.
C20_RetrieveNeverRaises ==
    last.op = "retrieve_memories" => last.raised = "none"

\* the fields of a record that retrieve_memories never writes
Untouched(m) ==
    [content |-> m.content, timestamp |-> m.timestamp, importance |-> m.importance,
     emotional_valence |-> m.emotional_valence, context |-> m.context,
     tags |-> m.tags, associations |-> m.associations]

\* C21: a retrieve_memories call changes only retrieval_count and
\* last_accessed of the records it returns: the stored records, the members of
\* every index bucket, every record's associations, all strengths, and the
\* counters of the records it does not return stay as they were.
C21_RetrieveFrame ==
    [][(retrievals' = retrievals + 1 /\ last'.op = "retrieve_memories") =>
          /\ order' = order
          /\ DOMAIN memories' = DOMAIN memories
          /\ context_index' = context_index
          /\ temporal_index' = temporal_index
          /\ emotional_index' = emotional_index
          /\ tag_index' = tag_index
          /\ association_strength' = association_strength
          /\ \A id \in DOMAIN memories :
                 /\ Untouched(memories'[id]) = Untouched(memories[id])
                 /\ id \notin Range(last'.results) => memories'[id] = memories[id]]_vars

\* C21 witness: a retrieval has returned one record and left out another one
\* that has an association and sits in index buckets.
C21_Witness ==
    /\ Retrieved
    /\ Returned # {}
    /\ \E id \in DOMAIN memories \ Returned :
           /\ memories[id].associations # <<>>
           /\ \E k \in DOMAIN context_index : id \in context_index[k]
    /\ DOMAIN association_strength # {}

-----------------------------------------------------------------------------
(* Properties of get_associated_memories and get_memory_statistics, checked  *)
(* under Spec                                                                *)

\* the last call was get_associated_memories
LookedUp == last.op = "get_associated_memories"

\* the peers of id whose stored strength reaches the threshold
StrongPeers(id, threshold) ==
    {o \in Associations(id) :
        /\ <<id, o>> \in DOMAIN association_strength
        /\ RatLeq(threshold, association_strength[<<id, o>>])}

\* C22: get_associated_memories(id, threshold, max_results) for a stored id
\* returns exactly the edges from id whose stored strength is >= threshold,
\* strongest first, cut to at most max_results entries; every returned peer is
\* a record in the store.
C22_AssociatedExact ==
    (LookedUp /\ last.memory_id \in DOMAIN memories /\ last.max_results >= 0) =>
        LET r == last.results
            strong == StrongPeers(last.memory_id, last.threshold)
        IN  /\ \A i \in DOMAIN r :
                   /\ r[i].id \in strong
                   /\ r[i].strength = association_strength[<<last.memory_id, r[i].id>>]
                   /\ r[i].id \in DOMAIN memories
            /\ \A i, j \in DOMAIN r : i < j =>
                   /\ r[i].id # r[j].id
                   /\ RatLeq(r[j].strength, r[i].strength)
            /\ Len(r) = Min(last.max_results, Cardinality(strong))
            /\ \A o \in strong \ {r[i].id : i \in DOMAIN r} :
                   \A i \in DOMAIN r :
                       RatLeq(association_strength[<<last.memory_id, o>>], r[i].strength)

\* a step that is a call of get_associated_memories
LookupStep == last'.op = "get_associated_memories" /\ clock' = clock

\* C23: get_associated_memories on an identifier that is not in the store
\* (never stored, or evicted) returns an empty sequence, raises no error and
\* leaves the store as it was.
C23_UnknownIdIsEmpty ==
    [][(LookupStep /\ last'.memory_id \notin DOMAIN memories) =>
          /\ last'.results = <<>>
          /\ last'.raised = "none"
          /\ UNCHANGED store_vars]_vars

\* C23 witness: the identifier of a record that the store_memory call before
\* had evicted was looked up while associated records were stored.
C23_Witness ==
    /\ LookedUp
    /\ last.memory_id \notin DOMAIN memories
    /\ last.memory_id # UnknownId
    /\ \E id \in DOMAIN memories : memories[id].associations # <<>>

\* the unordered pairs of stored records of which one lists the other
JoinedPairs ==
    {pr \in SUBSET DOMAIN memories :
        /\ Cardinality(pr) = 2
        /\ \E a \in pr, b \in pr :
               a # b /\ (b \in Associations(a) \/ a \in Associations(b))}

\* C24: in every reachable state get_memory_statistics reports total_memories
\* as the number of stored records, total_associations as the number of
\* unordered pairs of stored records joined by an association edge, and the
\* age range as absent when the store is empty.
C24_StatisticsExact ==
    last.op = "get_memory_statistics" =>
        /\ last.stats.total_memories = Cardinality(DOMAIN memories)
        /\ last.stats.total_associations = Cardinality(JoinedPairs)
        /\ DOMAIN memories = {} => last.stats.memory_age_range = PyNone

-----------------------------------------------------------------------------
(* Invariants of the store's bookkeeping, checked under Spec *)

\* C25: an identifier is a member of a context bucket, an hour bucket, a
\* discretized-valence bucket or a tag bucket if and only if it is a key of
\* the store and the record stored under it has that context pair, that
\* timestamp hour, that rounded valence or that tag.
C25_IndexConsistency ==
    /\ \A k \in DOMAIN context_index : \A id \in context_index[k] :
           id \in DOMAIN memories /\ k \in ContextKeys(memories[id])
    /\ \A k \in DOMAIN temporal_index : \A id \in temporal_index[k] :
           id \in DOMAIN memories /\ k = HourKey(memories[id].timestamp)
    /\ \A k \in DOMAIN emotional_index : \A id \in emotional_index[k] :
           id \in DOMAIN memories /\ k = EmotionKey(memories[id].emotional_valence)
    /\ \A k \in DOMAIN tag_index : \A id \in tag_index[k] :
           id \in DOMAIN memories /\ k \in memories[id].tags
    /\ \A id \in DOMAIN memories :
           /\ \A k \in ContextKeys(memories[id]) : id \in Lookup(context_index, k)
           /\ id \in Lookup(temporal_index, HourKey(memories[id].timestamp))
           /\ id \in Lookup(emotional_index, EmotionKey(memories[id].emotional_valence))
           /\ \A k \in memories[id].tags : id \in Lookup(tag_index, k)

\* a step that is a store_memory call which got as far as naming the record
NamingStep ==
    /\ last'.op = "store_memory"
    /\ clock' = clock
    /\ retrievals' = retrievals
    /\ last'.passed = "MemoryTrace"
    /\ last'.at # "__post_init__"

\* C26: store_memory never assigns an identifier that is already a key of the
\* store, so a store never replaces an existing record, also after evictions
\* and for a content equal to that of a stored record.
C26_FreshIdentifier ==
    [][NamingStep => last'.id \notin DOMAIN memories]_vars

\* C27: the strength map holds an entry for the ordered pair (a, b) exactly
\* when a and b are both stored and b is in a's associations; no entry names
\* an evicted record.
C27_StrengthsMatchEdges ==
    /\ \A pr \in DOMAIN association_strength :
           /\ pr[1] \in DOMAIN memories
           /\ pr[2] \in DOMAIN memories
           /\ pr[2] \in Associations(pr[1])
    /\ \A a \in DOMAIN memories : \A b \in Associations(a) :
           b \in DOMAIN memories => <<a, b>> \in DOMAIN association_strength

\* C28: each record's associations is a set of other stored records: no
\* identifier twice, not the record's own identifier, only keys of the store.
C28_AssociationsAreSets ==
    \A id \in DOMAIN memories :
        LET as == memories[id].associations
        IN  /\ \A i, j \in DOMAIN as : i # j => as[i] # as[j]
            /\ id \notin Range(as)
            /\ Range(as) \subseteq DOMAIN memories

-----------------------------------------------------------------------------
(* Properties of calls that run at the same time *)

\* both retrieve_memories calls have returned
BothReturned ==
    \A t \in DOMAIN last.readers :
        last.readers[t].pc = "done" /\ last.readers[t].raised = "none"

\* C29: when two retrieve_memories calls that both return record r run
\* interleaved at the read and the write of r.retrieval_count, the count ends
\* up increased by exactly 2: no update is lost.  Checked under
\* SpecRetrievers.
C29_NoLostUpdate ==
    BothReturned =>
        \A r \in Range(last.readers[1].results) \cap Range(last.readers[2].results) :
            memories[r].retrieval_count = last.start[r].retrieval_count + 2

\* C30: a retrieve_memories call interleaved with a store_memory call that
\* evicts record x never finds x in one dimension index while x is missing
\* from another, and never holds a candidate that is no key of the store
\* when it looks the records up.  Checked under SpecEviction.
C30_NoHalfRemoved ==
    \A t \in DOMAIN last.readers :
        /\ last.readers[t].hits \cap last.readers[t].misses = {}
        /\ last.readers[t].raised # "KeyError"

====
